---- MODULE Spec2Model ----
(***************************************************************************)
(* Pattern generation engine of the cross-stitch generator (EditorScreen): *)
(* flood fill of the background (getBackgroundGrid), contour tracing       *)
(* (traceAndSimplifyContours) and path simplification (simplifyPath).      *)
(* Grids are indexed as in the source: grid[y][x], 0-based.  Paths are     *)
(* sequences of points <<x, y>>.                                           *)
(***************************************************************************)
EXTENDS Integers, Sequences, FiniteSets, TLC

VARIABLES width, height, stitchGrid, backgroundGrid, boundaryEdges, walks, contourPaths,
          pc, path, simplified, resimplified,
          imageData, threshold,
          image, history, historyIndex, isImageLoaded, loading, frames, inFrame, canvas, svg,
          call,
          surface, saveStatus, saves, timers, pdfJobs, pdf

\* call names the handler the last step ran and its argument; svg and pdf hold
\* the document that step handed to the browser for download, if any.
\* surface tells whether the canvas has a container and a 2D context; saves
\* counts the handleSavePattern calls waiting for fileToDataUrl, timers the
\* pending setTimeout callbacks of saved patterns, and pdfJobs holds the stitch
\* counts captured by the PDF handlers waiting for the instructions

vars == <<width, height, stitchGrid, backgroundGrid, boundaryEdges, walks, contourPaths,
          pc, path, simplified, resimplified,
          imageData, threshold,
          image, history, historyIndex, isImageLoaded, loading, frames, inFrame, canvas, svg,
          call,
          surface, saveStatus, saves, timers, pdfJobs, pdf>>

\* the sample buffer and threshold of the quantize loop
sampleVars == <<imageData, threshold>>

\* the component state of EditorScreen, its canvas and its pending animation frames
editorVars ==
    <<image, history, historyIndex, isImageLoaded, loading, frames, inFrame, canvas, svg, call,
      surface, saveStatus, saves, timers, pdfJobs, pdf>>

\* ---------------------------------------------------------------- bounds
MaxSide == 4
MaxCells == 9
MaxFull == 4
MaxRing == 5
MaxPathLen == 6
MaxCoord == 2
MaxSampleSide == 2
MaxSampleCells == 4
MaxHistory == 3
MaxFrames == 2
MaxGridSize == 3
MaxPending == 1

\* ---------------------------------------------------------------- helpers
Abs(n) == IF n < 0 THEN 0 - n ELSE n

\* TRUE for every value; evaluating it evaluates v, so that a loop carries
\* the value of its accumulator and not the expression that builds it
Strict(v) == v = v

\* Array.from({length: height}, () => Array(width).fill(v))
FilledGrid(w, h, v) == [y \in 0..(h - 1) |-> [x \in 0..(w - 1) |-> v]]

SetCell(g, y, x, v) == [g EXCEPT ![y] = [@ EXCEPT ![x] = v]]

\* ---------------------------------------------------------------- getBackgroundGrid
\* if (!stitchGrid[y][x]) { backgroundGrid[y][x] = true; queue.push([y, x]); }
SeedCell(st, grid, y, x) ==
    IF ~grid[y][x]
    THEN [bg |-> SetCell(st.bg, y, x, TRUE), queue |-> Append(st.queue, <<y, x>>)]
    ELSE st

RECURSIVE SeedColumns(_, _, _, _, _)
SeedColumns(st, grid, w, h, y) ==
    IF Strict(st) /\ y >= h THEN st
    ELSE LET s1 == SeedCell(st, grid, y, 0)
             s2 == IF w > 1 THEN SeedCell(s1, grid, y, w - 1) ELSE s1
         IN SeedColumns(s2, grid, w, h, y + 1)

\* SeedRows without the seeds of the last row
RECURSIVE SeedRows_FirstRowOnly(_, _, _, _, _)
SeedRows_FirstRowOnly(st, grid, w, h, x) ==
    IF Strict(st) /\ x >= w THEN st
    ELSE SeedRows_FirstRowOnly(SeedCell(st, grid, 0, x), grid, w, h, x + 1)

RECURSIVE SeedRows(_, _, _, _, _)
SeedRows(st, grid, w, h, x) ==
    IF Strict(st) /\ x >= w THEN st
    ELSE LET s1 == SeedCell(st, grid, 0, x)
             s2 == IF h > 1 THEN SeedCell(s1, grid, h - 1, x) ELSE s1
         IN SeedRows(s2, grid, w, h, x + 1)

\* ExpandNeighbor without the test !stitchGrid[ny][nx]
ExpandNeighbor_IgnoreOccupied(st, grid, w, h, ny, nx) ==
    IF ny >= 0 /\ ny < h /\ nx >= 0 /\ nx < w /\ ~st.bg[ny][nx]
    THEN [bg |-> SetCell(st.bg, ny, nx, TRUE), queue |-> Append(st.queue, <<ny, nx>>)]
    ELSE st

ExpandNeighbor(st, grid, w, h, ny, nx) ==
    IF ny >= 0 /\ ny < h /\ nx >= 0 /\ nx < w /\ ~st.bg[ny][nx] /\ ~grid[ny][nx]
    THEN [bg |-> SetCell(st.bg, ny, nx, TRUE), queue |-> Append(st.queue, <<ny, nx>>)]
    ELSE st

RECURSIVE FloodFill(_, _, _, _)
FloodFill(st, grid, w, h) ==
    IF Strict(st) /\ Len(st.queue) = 0 THEN st.bg
    ELSE LET y  == Head(st.queue)[1]
             x  == Head(st.queue)[2]
             s0 == [bg |-> st.bg, queue |-> Tail(st.queue)]
             s1 == ExpandNeighbor(s0, grid, w, h, y - 1, x)
             s2 == ExpandNeighbor(s1, grid, w, h, y + 1, x)
             s3 == ExpandNeighbor(s2, grid, w, h, y, x - 1)
             s4 == ExpandNeighbor(s3, grid, w, h, y, x + 1)
         IN FloodFill(s4, grid, w, h)

\* getBackgroundGrid marking every unoccupied cell, enclosed or not
getBackgroundGrid_AllEmpty(grid, w, h) ==
    [y \in 0..(h - 1) |-> [x \in 0..(w - 1) |-> ~grid[y][x]]]

getBackgroundGrid(grid, w, h) ==
    LET st0 == [bg |-> FilledGrid(w, h, FALSE), queue |-> <<>>]
        st1 == SeedColumns(st0, grid, w, h, 0)
        st2 == SeedRows(st1, grid, w, h, 0)
    IN FloodFill(st2, grid, w, h)

\* ---------------------------------------------------------------- simplifyPath
\* (p_curr[1]-p_prev[1])*(p_next[0]-p_curr[0]) - (p_curr[0]-p_prev[0])*(p_next[1]-p_curr[1])
CrossProduct(p_prev, p_curr, p_next) ==
    (p_curr[2] - p_prev[2]) * (p_next[1] - p_curr[1])
  - (p_curr[1] - p_prev[1]) * (p_next[2] - p_curr[2])

\* Math.abs(cross_product) > 1e-9 on integer coordinates
IsTurn(c) == Abs(c) >= 1

\* Math.abs(cross_product) < 1e-9 on integer coordinates
IsStraight(c) == Abs(c) < 1

\* the linear pass keeping every interior point
LinearPass_KeepAll(p, acc, i) == SubSeq(p, 1, Len(p) - 1)

\* the linear pass: i is the 1-based index of p_curr
RECURSIVE LinearPass(_, _, _)
LinearPass(p, acc, i) ==
    IF Strict(acc) /\ i > Len(p) - 1 THEN acc
    ELSE LET c == CrossProduct(acc[Len(acc)], p[i], p[i + 1])
         IN LinearPass(p, IF IsTurn(c) THEN Append(acc, p[i]) ELSE acc, i + 1)

\* the wrap-around check at the last point made from 2 points on
DropLast_NoLengthGuard(s) ==
    IF Len(s) >= 2 /\ IsStraight(CrossProduct(s[Len(s) - 1], s[Len(s)], s[1]))
    THEN SubSeq(s, 1, Len(s) - 1)
    ELSE s

\* simplifyPath without the wrap-around check at the last point
DropLast_Never(s) == s

\* wrap-around check at the last point: simplified.pop()
DropLast(s) ==
    IF Len(s) >= 3 /\ IsStraight(CrossProduct(s[Len(s) - 1], s[Len(s)], s[1]))
    THEN SubSeq(s, 1, Len(s) - 1)
    ELSE s

\* the wrap-around check at the first point with the comparison turned round
DropFirst_Inverted(s) ==
    IF Len(s) >= 3 /\ IsTurn(CrossProduct(s[Len(s)], s[1], s[2]))
    THEN Tail(s)
    ELSE s

\* wrap-around check at the first point: simplified.shift()
DropFirst(s) ==
    IF Len(s) >= 3 /\ IsStraight(CrossProduct(s[Len(s)], s[1], s[2]))
    THEN Tail(s)
    ELSE s

simplifyPath(p) ==
    IF Len(p) < 3 THEN p
    ELSE LET lin == Append(LinearPass(p, <<p[1]>>, 2), p[Len(p)])
         IN DropFirst(DropLast(lin))

\* ---------------------------------------------------------------- string keys
Digits == <<"0", "1", "2", "3", "4", "5", "6", "7", "8", "9">>

\* Number -> decimal string (template literal / Array.join), as a sequence of characters
RECURSIVE NumToStr(_)
NumToStr(n) ==
    IF n < 10 THEN <<Digits[n + 1]>>
    ELSE NumToStr(n \div 10) \o <<Digits[(n % 10) + 1]>>

DigitVal(c) == CHOOSE d \in 0..9 : Digits[d + 1] = c

\* Number(string) on a decimal string
RECURSIVE StrToNum(_)
StrToNum(s) ==
    IF Len(s) = 0 THEN 0
    ELSE 10 * StrToNum(SubSeq(s, 1, Len(s) - 1)) + DigitVal(s[Len(s)])

\* `${x},${y}` and p.join(',')
PointKey(x, y) == NumToStr(x) \o <<",">> \o NumToStr(y)

CommaAt(k) == CHOOSE i \in 1..Len(k) : k[i] = ","

\* key.split(',').map(Number)
ParseKey(k) ==
    <<StrToNum(SubSeq(k, 1, CommaAt(k) - 1)), StrToNum(SubSeq(k, CommaAt(k) + 1, Len(k)))>>

\* ---------------------------------------------------------------- insertion-ordered Set and Map
SeqHas(s, e) == \E i \in 1..Len(s) : s[i] = e

\* Set.prototype.add: insertion order is kept, a present key is not added again
SetAdd(s, k) == IF SeqHas(s, k) THEN s ELSE Append(s, k)

\* Map.prototype.has on a sequence of [key, edges] entries in insertion order
MapHas(m, k) == \E i \in 1..Len(m) : m[i].key = k

MapIndex(m, k) == CHOOSE i \in 1..Len(m) : m[i].key = k

\* pointsToEdges.get(key) || []
MapGet(m, k) == IF MapHas(m, k) THEN m[MapIndex(m, k)].edges ELSE <<>>

\* if (!pointsToEdges.has(key)) pointsToEdges.set(key, [])
MapEnsure(m, k) == IF MapHas(m, k) THEN m ELSE Append(m, [key |-> k, edges |-> <<>>])

\* pointsToEdges.get(key)!.push(edge)
MapPush(m, k, e) == [m EXCEPT ![MapIndex(m, k)].edges = Append(@, e)]

\* addEdgeToMap pushing the edge on the list of its first endpoint only
addEdgeToMap_OneEndpoint(m, p1, p2) ==
    LET edge == [p1 |-> p1, p2 |-> p2]
        key1 == PointKey(p1[1], p1[2])
        key2 == PointKey(p2[1], p2[2])
        m1   == MapEnsure(m, key1)
        m2   == MapEnsure(m1, key2)
    IN MapPush(m2, key1, edge)

addEdgeToMap(m, p1, p2) ==
    LET edge == [p1 |-> p1, p2 |-> p2]
        key1 == PointKey(p1[1], p1[2])
        key2 == PointKey(p2[1], p2[2])
        m1   == MapEnsure(m, key1)
        m2   == MapEnsure(m1, key2)
        m3   == MapPush(m2, key1, edge)
    IN MapPush(m3, key2, edge)

\* ---------------------------------------------------------------- traceAndSimplifyContours
\* the four tests reading the occupancy grid where the code reads the background mask
CellEdges_AnyEmptyNeighbour(st, grid, bg, w, h, y, x) ==
    IF ~grid[y][x] THEN st
    ELSE LET h1 == IF y = 0 \/ ~grid[y - 1][x] THEN SetAdd(st.horizontalEdges, PointKey(x, y))
                   ELSE st.horizontalEdges
             h2 == IF y = h - 1 \/ ~grid[y + 1][x] THEN SetAdd(h1, PointKey(x, y + 1))
                   ELSE h1
             v1 == IF x = 0 \/ ~grid[y][x - 1] THEN SetAdd(st.verticalEdges, PointKey(x, y))
                   ELSE st.verticalEdges
             v2 == IF x = w - 1 \/ ~grid[y][x + 1] THEN SetAdd(v1, PointKey(x + 1, y))
                   ELSE v1
         IN [horizontalEdges |-> h2, verticalEdges |-> v2]

\* the four tests made for one cell of the row-major scan
CellEdges(st, grid, bg, w, h, y, x) ==
    IF ~grid[y][x] THEN st
    ELSE LET h1 == IF y = 0 \/ bg[y - 1][x] THEN SetAdd(st.horizontalEdges, PointKey(x, y))
                   ELSE st.horizontalEdges
             h2 == IF y = h - 1 \/ bg[y + 1][x] THEN SetAdd(h1, PointKey(x, y + 1))
                   ELSE h1
             v1 == IF x = 0 \/ bg[y][x - 1] THEN SetAdd(st.verticalEdges, PointKey(x, y))
                   ELSE st.verticalEdges
             v2 == IF x = w - 1 \/ bg[y][x + 1] THEN SetAdd(v1, PointKey(x + 1, y))
                   ELSE v1
         IN [horizontalEdges |-> h2, verticalEdges |-> v2]

\* for y { for x { ... } } flattened: n = y * w + x
RECURSIVE ScanEdges(_, _, _, _, _, _)
ScanEdges(st, grid, bg, w, h, n) ==
    IF Strict(st) /\ n >= w * h THEN st
    ELSE ScanEdges(CellEdges(st, grid, bg, w, h, n \div w, n % w), grid, bg, w, h, n + 1)

BoundaryEdges(grid, bg, w, h) ==
    ScanEdges([horizontalEdges |-> <<>>, verticalEdges |-> <<>>], grid, bg, w, h, 0)

\* horizontalEdges.forEach(key => addEdgeToMap([x, y], [x + 1, y]))
RECURSIVE AddHorizontal(_, _, _)
AddHorizontal(m, keys, i) ==
    IF Strict(m) /\ i > Len(keys) THEN m
    ELSE LET p == ParseKey(keys[i])
         IN AddHorizontal(addEdgeToMap(m, <<p[1], p[2]>>, <<p[1] + 1, p[2]>>), keys, i + 1)

\* verticalEdges.forEach(key => addEdgeToMap([x, y], [x, y + 1]))
RECURSIVE AddVertical(_, _, _)
AddVertical(m, keys, i) ==
    IF Strict(m) /\ i > Len(keys) THEN m
    ELSE LET p == ParseKey(keys[i])
         IN AddVertical(addEdgeToMap(m, <<p[1], p[2]>>, <<p[1], p[2] + 1>>), keys, i + 1)

PointsToEdges(edges) ==
    AddVertical(AddHorizontal(<<>>, edges.horizontalEdges, 1), edges.verticalEdges, 1)

\* the candidate of one edge: the other endpoint, <<>> standing for null
CandidateKey(edge, currentPointKey) ==
    LET p1Key == PointKey(edge.p1[1], edge.p1[2])
        p2Key == PointKey(edge.p2[1], edge.p2[2])
        c1    == IF p1Key = currentPointKey THEN p2Key ELSE <<>>
    IN IF p2Key = currentPointKey THEN p1Key ELSE c1

\* for (const edge of connectedEdges) { ... break; }: key of nextPoint, <<>> for null
RECURSIVE NextPointKey(_, _, _, _)
NextPointKey(connectedEdges, currentPointKey, visitedPoints, i) ==
    IF i > Len(connectedEdges) THEN <<>>
    ELSE LET candidateKey == CandidateKey(connectedEdges[i], currentPointKey)
         IN IF Len(candidateKey) > 0 /\ candidateKey \notin visitedPoints
            THEN PointKey(ParseKey(candidateKey)[1], ParseKey(candidateKey)[2])
            ELSE NextPointKey(connectedEdges, currentPointKey, visitedPoints, i + 1)

\* a walk that stops at its start point
Walk_StopsAtOnce(m, visitedPoints, currentPointKey, p) ==
    [path |-> p, visitedPoints |-> visitedPoints]

\* while (true) { ... }: the greedy walk from currentPointKey
RECURSIVE Walk(_, _, _, _)
Walk(m, visitedPoints, currentPointKey, p) ==
    LET nextPointKey == NextPointKey(MapGet(m, currentPointKey), currentPointKey, visitedPoints, 1)
    IN IF Strict(p) /\ Len(nextPointKey) > 0
       THEN Walk(m, visitedPoints \cup {nextPointKey}, nextPointKey,
                 Append(p, ParseKey(nextPointKey)))
       ELSE [path |-> p, visitedPoints |-> visitedPoints]

\* for (const startPointKey of pointsToEdges.keys()) { ... }
\* walked records every walk as it was before simplification, kept or not
RECURSIVE TraceFrom(_, _, _)
TraceFrom(m, st, i) ==
    IF Strict(st) /\ i > Len(m) THEN st
    ELSE LET startPointKey == m[i].key
         IN IF startPointKey \in st.visitedPoints THEN TraceFrom(m, st, i + 1)
            ELSE LET w == Walk(m, st.visitedPoints \cup {startPointKey}, startPointKey,
                               <<ParseKey(startPointKey)>>)
                 IN TraceFrom(m,
                      [visitedPoints |-> w.visitedPoints,
                       allPaths |-> IF Len(w.path) > 1
                                    THEN Append(st.allPaths, simplifyPath(w.path))
                                    ELSE st.allPaths,
                       walked |-> Append(st.walked, w.path)],
                      i + 1)

\* edges records the two edge sets the scan built
TraceState(grid, bg, w, h) ==
    LET edges == BoundaryEdges(grid, bg, w, h)
        st    == TraceFrom(PointsToEdges(edges),
                           [visitedPoints |-> {}, allPaths |-> <<>>, walked |-> <<>>], 1)
    IN [allPaths |-> st.allPaths, walked |-> st.walked, edges |-> edges]

traceAndSimplifyContours(grid, bg, w, h) == TraceState(grid, bg, w, h).allPaths

\* ---------------------------------------------------------------- closed stroke of the renderers
\* moveTo(path[0]); lineTo(path[i]) for i >= 1; closePath(): the segments of the stroke
ClosedSegments(p) ==
    IF Len(p) < 2 THEN <<>>
    ELSE [i \in 1..Len(p) |-> <<p[i], p[(i % Len(p)) + 1]>>]

\* ---------------------------------------------------------------- quantize loop
\* The luminance  r * 0.299 + g * 0.587 + b * 0.114  is computed in IEEE 754
\* binary64, left to right, every product and every sum rounded to nearest,
\* ties to even.  A binary64 value v in [0, 256) is held exactly as the integer
\* v * 2^56, written in three limbs <<hi, mid, lo>> of 22 bits.
Limb == 4194304

\* the binary64 constants 0.299, 0.587 and 0.114 (0x1.322d0e5604189p-2,
\* 0x1.2c8b439581062p-1, 0x1.d2f1a9fbe76c9p-4) times 2^56
Weight_R == <<1224, 2952790, 67108>>
Weight_G == <<2404, 1476395, 33552>>
Weight_B == <<466, 3959422, 4093641>>

\* carries the limbs of h * Limb^2 + m * Limb + l
Normalize(h, m, l) ==
    LET m1 == m + (l \div Limb)
    IN <<h + (m1 \div Limb), m1 % Limb, l % Limb>>

\* number of bits of the high limb
BitLength(h) == Cardinality({k \in 0..20 : 2^k <= h})

\* rounds an exact value to 53 significant bits, nearest, ties to even; the
\* value has 44 + BitLength(hi) bits, so the bits dropped are the low
\* BitLength(hi) - 9 bits of lo
RoundToDouble(x) ==
    LET s == BitLength(x[1]) - 9
    IN IF s <= 0 THEN x
       ELSE LET rem == x[3] % (2^s)
                half == 2^(s - 1)
                up == \/ rem > half
                      \/ rem = half /\ (x[3] \div (2^s)) % 2 = 1
            IN Normalize(x[1], x[2], (x[3] - rem) + (IF up THEN 2^s ELSE 0))

\* v * c for a byte v and a binary64 constant c
DoubleTimes(v, c) == RoundToDouble(Normalize(v * c[1], v * c[2], v * c[3]))

DoublePlus(a, b) == RoundToDouble(Normalize(a[1] + b[1], a[2] + b[2], a[3] + b[3]))

\* const gray = r * 0.299 + g * 0.587 + b * 0.114
Gray(r, g, b) ==
    DoublePlus(DoublePlus(DoubleTimes(r, Weight_R), DoubleTimes(g, Weight_G)),
               DoubleTimes(b, Weight_B))

\* gray < threshold, for an integer threshold: threshold * 2^56 has limbs
\* <<threshold * 2^12, 0, 0>>
AlphaCutoff == 128

GrayBelow(x, t) == x[1] < t * 4096

\* if (a > 128 && gray < threshold) currentStitchGrid[y][x] = true
IsStitch(data, i, t) ==
    /\ data[i + 3] > AlphaCutoff
    /\ GrayBelow(Gray(data[i], data[i + 1], data[i + 2]), t)

\* the loop over y and x with i = (y * stitchesX + x) * 4; data is the
\* 0-based byte array of getImageData
Quantize(data, stitchesX, stitchesY, t) ==
    [y \in 0..(stitchesY - 1) |->
        [x \in 0..(stitchesX - 1) |-> IsStitch(data, (y * stitchesX + x) * 4, t)]]

\* ---------------------------------------------------------------- editor: state
DMC_COLORS ==
    << [name |-> "Red", dmc |-> "#321", hex |-> "#DE313A"],
       [name |-> "Bright Orange", dmc |-> "#608", hex |-> "#FF6C00"],
       [name |-> "Dark Lemon", dmc |-> "#444", hex |-> "#FFBF00"],
       [name |-> "Green", dmc |-> "#699", hex |-> "#008848"],
       [name |-> "Dark Delft Blue", dmc |-> "#798", hex |-> "#40548B"],
       [name |-> "Black", dmc |-> "#310", hex |-> "#000000"] >>

DefaultThreshold == 128

\* the default stitch count (32 in the source) is the largest of the model
defaultState ==
    [gridSize |-> MaxGridSize, threshold |-> DefaultThreshold, fillShape |-> "circle",
     outlineOffset |-> 0, selectedColor |-> DMC_COLORS[6]]

\* DMC_COLORS.find(c => c.dmc === initialState.selectedColor?.dmc) || DMC_COLORS[5]
FindColor(color) ==
    IF \E i \in 1..Len(DMC_COLORS) : DMC_COLORS[i].dmc = color.dmc
    THEN DMC_COLORS[CHOOSE i \in 1..Len(DMC_COLORS) :
                        /\ DMC_COLORS[i].dmc = color.dmc
                        /\ \A j \in 1..(i - 1) : DMC_COLORS[j].dmc # color.dmc]
    ELSE DMC_COLORS[6]

Null == [null |-> TRUE]

\* const loadedState = initialState ? {...} : defaultState
loadedState(initialState) ==
    IF initialState = Null THEN defaultState
    ELSE [gridSize |-> initialState.gridSize, threshold |-> initialState.threshold,
          fillShape |-> initialState.fillShape, outlineOffset |-> initialState.outlineOffset,
          selectedColor |-> FindColor(initialState.selectedColor)]

\* const currentState = history[historyIndex]; history is 0-based in the source
currentState == history[historyIndex + 1]

canUndo_Always == TRUE

canUndo == historyIndex > 0

canRedo_Never == FALSE

canRedo == historyIndex < Len(history) - 1

\* const nextState = { ...currentState, ...newState }
Merge(cur, newState) ==
    [k \in DOMAIN cur |-> IF k \in DOMAIN newState THEN newState[k] ELSE cur[k]]

\* JSON.stringify(nextState) === JSON.stringify(currentState): both objects
\* list the five keys in the order of currentState, with integer and string
\* values, so the strings are equal exactly when every field is equal
SameJson_Never(a, b) == FALSE

SameJson(a, b) == \A k \in DOMAIN a : a[k] = b[k]

\* history.slice(0, historyIndex + 1) followed by push(nextState)
PushHistory_KeepRedo(h, i, nextState) == Append(h, nextState)

PushHistory(h, i, nextState) == Append(SubSeq(h, 1, i + 1), nextState)

\* ---------------------------------------------------------------- editor: recompute
\* Math.floor(gridSize / aspectRatio) with aspectRatio = image.width / image.height;
\* for the image sizes of the model the quotients are exact in binary64
StitchesY(gridSize, img) == (gridSize * img.height) \div img.width

\* drawImage(image, 0, 0, stitchesX, stitchesY) followed by getImageData: the
\* resampling filter belongs to the browser; each target sample is taken at the
\* centre of the source area it covers
SourceIndex(k, target, source) == ((2 * k + 1) * source) \div (2 * target)

Resample(img, stitchesX, stitchesY) ==
    [i \in 0..(4 * stitchesX * stitchesY - 1) |->
        LET x == (i \div 4) % stitchesX
            y == (i \div 4) \div stitchesX
        IN img.pixels[SourceIndex(y, stitchesY, img.height) + 1]
                     [SourceIndex(x, stitchesX, img.width) + 1][(i % 4) + 1]]

\* the cells in the order of the loops: for y ... for x ...
CellsInOrder(stitchesX, stitchesY) ==
    [k \in 1..(stitchesX * stitchesY) |-> <<(k - 1) % stitchesX, (k - 1) \div stitchesX>>]

\* canvas after canvas.width = ..., canvas.height = ... or clearRect
BlankCanvas == <<>>

\* path2DObjects.forEach(p => ctx.stroke(p)) with lineWidth = outlineOffset * 2,
\* lineJoin = 'miter'; a path of fewer than two points is an empty Path2D
CanvasStrokes(st, grid, stitchesX, stitchesY) ==
    IF st.outlineOffset > 0
    THEN LET contours == traceAndSimplifyContours(grid, getBackgroundGrid(grid, stitchesX, stitchesY),
                                                  stitchesX, stitchesY)
         IN [i \in 1..Len(contours) |->
                [kind |-> "stroke",
                 segments |-> ClosedSegments(contours[i]),
                 lineWidth |-> st.outlineOffset * 2,
                 lineJoin |-> "miter",
                 style |-> st.selectedColor.hex]]
    ELSE <<>>

\* one arc + fill or one fillRect for every true cell
CanvasFills(st, grid, stitchesX, stitchesY) ==
    LET occupied == SelectSeq(CellsInOrder(stitchesX, stitchesY), LAMBDA c : grid[c[2]][c[1]])
    IN [k \in 1..Len(occupied) |->
           [kind |-> "fill", shape |-> st.fillShape, x |-> occupied[k][1], y |-> occupied[k][2],
            style |-> st.selectedColor.hex]]

\* the fill loop before the outline
Render_FillsFirst(st, grid, stitchesX, stitchesY) ==
    CanvasFills(st, grid, stitchesX, stitchesY) \o CanvasStrokes(st, grid, stitchesX, stitchesY)

\* lines 162-209: clearRect, the outline, then the fill loop
Render(st, grid, stitchesX, stitchesY) ==
    CanvasStrokes(st, grid, stitchesX, stitchesY) \o CanvasFills(st, grid, stitchesX, stitchesY)

\* getImageData(0, 0, sw, sh) throws IndexSizeError when sw or sh is 0
GetImageDataThrows_Never(stitchesX, stitchesY) == FALSE

GetImageDataThrows(stitchesX, stitchesY) == stitchesX = 0 \/ stitchesY = 0

\* ---------------------------------------------------------------- editor: SVG export
SvgStitchSize == 10

\* stitchGrid[y][x] on the stored grid: a missing row raises a TypeError, a
\* missing column reads undefined
SvgRowsMissing(grid, stitchesY) == stitchesY > Cardinality(DOMAIN grid)

SvgCell(grid, y, x) == x \in DOMAIN grid[y] /\ grid[y][x]

\* contourPaths.forEach: one <path ... Z> per path of at least two points
SvgStrokes(st, grid, stitchesX, stitchesY) ==
    IF st.outlineOffset > 0
    THEN LET contours == traceAndSimplifyContours(grid, getBackgroundGrid(grid, stitchesX, stitchesY),
                                                  stitchesX, stitchesY)
             drawn == SelectSeq(contours, LAMBDA q : Len(q) >= 2)
         IN [i \in 1..Len(drawn) |->
                [kind |-> "stroke",
                 segments |-> ClosedSegments(drawn[i]),
                 lineWidth |-> st.outlineOffset * 2,
                 lineJoin |-> "round",
                 style |-> st.selectedColor.hex]]
    ELSE <<>>

\* one <circle> or <rect> for every true cell
SvgFills(st, grid, stitchesX, stitchesY) ==
    LET occupied == SelectSeq(CellsInOrder(stitchesX, stitchesY),
                              LAMBDA c : SvgCell(grid, c[2], c[1]))
    IN [k \in 1..Len(occupied) |->
           [kind |-> "fill", shape |-> (IF st.fillShape = "circle" THEN "circle" ELSE "rect"),
            x |-> occupied[k][1], y |-> occupied[k][2], style |-> st.selectedColor.hex]]

SvgDocument(st, grid, stitchesX, stitchesY) ==
    [width |-> stitchesX * SvgStitchSize, height |-> stitchesY * SvgStitchSize,
     elements |-> SvgStrokes(st, grid, stitchesX, stitchesY)
                  \o SvgFills(st, grid, stitchesX, stitchesY)]

\* ---------------------------------------------------------------- inputs
AllGrids(w, h) == [0..(h - 1) -> [0..(w - 1) -> BOOLEAN]]

\* every grid of at most MaxCells cells with sides of at most MaxSide cells
SmallSizes == {d \in (1..MaxSide) \X (1..MaxSide) : d[1] * d[2] <= MaxCells}

SmallInputs ==
    UNION {{[w |-> d[1], h |-> d[2], grid |-> g] : g \in AllGrids(d[1], d[2])} :
           d \in SmallSizes}

FullInputs ==
    {[w |-> d[1], h |-> d[2], grid |-> FilledGrid(d[1], d[2], TRUE)] :
     d \in (1..MaxFull) \X (1..MaxFull)}

RingGrid(w, h) ==
    [y \in 0..(h - 1) |-> [x \in 0..(w - 1) |-> (y = 0 \/ y = h - 1 \/ x = 0 \/ x = w - 1)]]

RingInputs ==
    {[w |-> d[1], h |-> d[2], grid |-> RingGrid(d[1], d[2])] :
     d \in (1..MaxRing) \X (1..MaxRing)}

GridInputs == SmallInputs \cup FullInputs \cup RingInputs

Points == (0..MaxCoord) \X (0..MaxCoord)

UnitApart(p, q) == Abs(p[1] - q[1]) + Abs(p[2] - q[2]) = 1

\* lattice paths of n points: consecutive points one unit apart, points may repeat
RECURSIVE LatticePathsOfLen(_)
LatticePathsOfLen(n) ==
    IF n = 1 THEN {<<p>> : p \in Points}
    ELSE UNION {{Append(q, p) : p \in {r \in Points : UnitApart(q[Len(q)], r)}} :
                q \in LatticePathsOfLen(n - 1)}

LatticePaths == UNION {LatticePathsOfLen(n) : n \in 1..MaxPathLen}

SeqRange(s) == {s[i] : i \in 1..Len(s)}

\* the walks the tracer makes on the small grids, before simplification
TracerWalks ==
    UNION {SeqRange(TraceState(in.grid, getBackgroundGrid(in.grid, in.w, in.h), in.w, in.h).walked) :
           in \in SmallInputs}

PathInputs == LatticePaths \cup TracerWalks

\* byte values around the ends of the range and around the default threshold
Levels == {0, 1, 2, 127, 128, 129, 255}

Alphas == {0, 127, 128, 129, 200, 255}

Thresholds == {0, 1, 2, 127, 128, 129, 255}

Samples == Levels \X Levels \X Levels \X Alphas

\* grey samples of both opacities, for the buffers of more than one sample
GreySamples == {<<127, 127, 127, 200>>, <<128, 128, 128, 200>>, <<127, 127, 127, 128>>}

\* the byte array of a sequence of samples, 0-based as a Uint8ClampedArray
Bytes(samples) ==
    [i \in 0..(4 * Len(samples) - 1) |-> samples[(i \div 4) + 1][(i % 4) + 1]]

RECURSIVE SeqsOfLen(_, _)
SeqsOfLen(S, n) ==
    IF n = 0 THEN {<<>>}
    ELSE UNION {{Append(q, e) : e \in S} : q \in SeqsOfLen(S, n - 1)}

SampleDims ==
    {d \in (1..MaxSampleSide) \X (1..MaxSampleSide) : d[1] * d[2] > 1 /\ d[1] * d[2] <= MaxSampleCells}

SampleInputs ==
    {[w |-> 1, h |-> 1, data |-> Bytes(<<p>>)] : p \in Samples}
    \cup UNION {{[w |-> d[1], h |-> d[2], data |-> Bytes(q)] :
                 q \in SeqsOfLen(GreySamples, d[1] * d[2])} : d \in SampleDims}

\* samples of the source images: opaque dark, opaque mid grey (luminance 128),
\* opaque light and transparent
Dark == <<0, 0, 0, 255>>
MidGrey == <<128, 128, 128, 255>>
Light == <<255, 255, 255, 255>>
Clear == <<0, 0, 0, 0>>

\* the source image: 3 x 2 pixels (aspect ratio 3 / 2)
Images ==
    { [width |-> 3, height |-> 2, pixels |-> << <<Dark, MidGrey, Light>>, <<Clear, Dark, Dark>> >>] }

\* the initialState prop: null or a saved pattern
SavedPatterns ==
    { [gridSize |-> 1, threshold |-> 128, fillShape |-> "circle", outlineOffset |-> 0,
       selectedColor |-> [name |-> "Black", dmc |-> "#310", hex |-> "#000000"]] }

InitialStates == {Null} \cup SavedPatterns

\* the partial states the controls pass to setState: stitch counts that give
\* no row (1) and the default, one value of each other control
GridSizes == {1, MaxGridSize}

NewStates ==
    {[gridSize |-> g] : g \in GridSizes}
    \cup {[threshold |-> 0], [fillShape |-> "square"], [outlineOffset |-> 1]}

\* ---------------------------------------------------------------- contour pipeline
NoGrid == <<>>

NoEdges == [horizontalEdges |-> <<>>, verticalEdges |-> <<>>]

\* no sample buffer has been read
NoSamples ==
    /\ imageData = <<>>
    /\ threshold = 0

\* no editor is mounted
NoEditor ==
    /\ image = <<>>
    /\ history = <<>>
    /\ historyIndex = -1
    /\ isImageLoaded = FALSE
    /\ loading = FALSE
    /\ frames = <<>>
    /\ inFrame = FALSE
    /\ canvas = <<>>
    /\ svg = <<>>
    /\ call = <<>>
    /\ surface = "ok"
    /\ saveStatus = "idle"
    /\ saves = 0
    /\ timers = 0
    /\ pdfJobs = <<>>
    /\ pdf = <<>>

InitContour ==
    /\ \E in \in GridInputs :
         /\ width = in.w
         /\ height = in.h
         /\ stitchGrid = in.grid
    /\ backgroundGrid = NoGrid
    /\ boundaryEdges = NoEdges
    /\ walks = <<>>
    /\ contourPaths = <<>>
    /\ pc = "grid"
    /\ path = <<>>
    /\ simplified = <<>>
    /\ resimplified = <<>>
    /\ NoSamples
    /\ NoEditor

\* const backgroundGrid = getBackgroundGrid(currentStitchGrid, stitchesX, stitchesY)
ResolveBackground ==
    /\ pc = "grid"
    /\ backgroundGrid' = getBackgroundGrid(stitchGrid, width, height)
    /\ pc' = "background"
    /\ UNCHANGED <<width, height, stitchGrid, boundaryEdges, walks, contourPaths, path, simplified, resimplified, sampleVars, editorVars>>

\* const contourPaths = traceAndSimplifyContours(currentStitchGrid, backgroundGrid, ...)
TraceContours ==
    /\ pc = "background"
    /\ LET st == TraceState(stitchGrid, backgroundGrid, width, height)
       IN /\ contourPaths' = st.allPaths
          /\ walks' = st.walked
          /\ boundaryEdges' = st.edges
    /\ pc' = "traced"
    /\ UNCHANGED <<width, height, stitchGrid, backgroundGrid, path, simplified, resimplified, sampleVars, editorVars>>

NextContour == ResolveBackground \/ TraceContours

SpecContour == InitContour /\ [][NextContour]_vars

\* the position the handler moves to when it makes its next call; both calls
\* are total, so NextContour can move pc exactly when this can
ContourAdvance ==
    \/ pc = "grid" /\ pc' = "background"
    \/ pc = "background" /\ pc' = "traced"

\* the two calls are synchronous and follow each other in one handler: a call
\* that can be made is made
SpecContourLive == InitContour /\ [][NextContour]_vars /\ WF_pc(ContourAdvance)

\* ---------------------------------------------------------------- simplifier alone
InitPath ==
    /\ path \in PathInputs
    /\ simplified = <<>>
    /\ resimplified = <<>>
    /\ pc = "path"
    /\ width = 0
    /\ height = 0
    /\ stitchGrid = NoGrid
    /\ backgroundGrid = NoGrid
    /\ boundaryEdges = NoEdges
    /\ walks = <<>>
    /\ contourPaths = <<>>
    /\ NoSamples
    /\ NoEditor

Simplify ==
    /\ pc = "path"
    /\ simplified' = simplifyPath(path)
    /\ pc' = "simplified"
    /\ UNCHANGED <<width, height, stitchGrid, backgroundGrid, boundaryEdges, walks, contourPaths, path, resimplified, sampleVars, editorVars>>

SimplifyAgain ==
    /\ pc = "simplified"
    /\ resimplified' = simplifyPath(simplified)
    /\ pc' = "resimplified"
    /\ UNCHANGED <<width, height, stitchGrid, backgroundGrid, boundaryEdges, walks, contourPaths, path, simplified, sampleVars, editorVars>>

NextPath == Simplify \/ SimplifyAgain

SpecPath == InitPath /\ [][NextPath]_vars

\* ---------------------------------------------------------------- quantize loop alone
InitQuantize ==
    /\ \E in \in SampleInputs :
         /\ width = in.w
         /\ height = in.h
         /\ imageData = in.data
    /\ threshold \in Thresholds
    /\ stitchGrid = NoGrid
    /\ pc = "sampled"
    /\ backgroundGrid = NoGrid
    /\ boundaryEdges = NoEdges
    /\ walks = <<>>
    /\ contourPaths = <<>>
    /\ path = <<>>
    /\ simplified = <<>>
    /\ resimplified = <<>>
    /\ NoEditor

\* lines 146-160: the loop fills currentStitchGrid, setStitchGrid stores it
QuantizeSamples ==
    /\ pc = "sampled"
    /\ stitchGrid' = Quantize(imageData, width, height, threshold)
    /\ pc' = "quantized"
    /\ UNCHANGED <<width, height, backgroundGrid, boundaryEdges, walks, contourPaths,
                   path, simplified, resimplified, sampleVars, editorVars>>

NextQuantize == QuantizeSamples

SpecQuantize == InitQuantize /\ [][NextQuantize]_vars

\* ---------------------------------------------------------------- editor
\* the state after the first render of EditorScreen: the useState initial
\* values, an image that has not loaded, nothing drawn, nothing downloaded
InitEditor ==
    /\ image \in Images
    /\ history = <<>>
    /\ historyIndex = -1
    /\ stitchGrid = NoGrid
    /\ loading = TRUE
    /\ isImageLoaded = FALSE
    /\ frames = <<>>
    /\ inFrame = FALSE
    /\ canvas = BlankCanvas
    /\ svg = <<>>
    /\ call = [op |-> "mount"]
    /\ surface = "ok"
    /\ saveStatus = "idle"
    /\ saves = 0
    /\ timers = 0
    /\ pdfJobs = <<>>
    /\ pdf = <<>>
    /\ pc = "editor"
    /\ width = 0
    /\ height = 0
    /\ backgroundGrid = NoGrid
    /\ boundaryEdges = NoEdges
    /\ walks = <<>>
    /\ contourPaths = <<>>
    /\ path = <<>>
    /\ simplified = <<>>
    /\ resimplified = <<>>
    /\ NoSamples

\* what no step of the editor changes
ComponentFrame ==
    UNCHANGED <<width, height, backgroundGrid, boundaryEdges, walks, contourPaths, pc,
                path, simplified, resimplified, sampleVars, image>>

\* what the history handlers, the image listener, the animation frames and the
\* SVG download leave alone; none of them hands a PDF to the browser
EditorFrame ==
    /\ ComponentFrame
    /\ pdf' = <<>>
    /\ UNCHANGED <<surface, saves, timers, pdfJobs>>

\* useEffect(() => setSaveStatus('idle'), [currentState])
SaveStatusEffect(changed) ==
    IF changed THEN saveStatus' = "idle" ELSE UNCHANGED saveStatus

\* the controls are rendered once currentState is defined, and no event
\* handler runs between the callbacks of one animation frame
Interactive == historyIndex >= 0 /\ ~inFrame

\* the recompute effect (deps [isImageLoaded, currentState]) after a render in
\* which a dependency changed: guard, setLoading(true), requestAnimationFrame
\* with the currentState of that render captured by the callback
RecomputeEffect_NoSchedule(changed, st) == UNCHANGED <<loading, frames>>

RecomputeEffect(changed, st) ==
    IF changed /\ isImageLoaded'
    THEN /\ loading' = TRUE
         /\ frames' = Append(frames, st)
    ELSE UNCHANGED <<loading, frames>>

\* the initialisation effect (deps [initialState]): at mount and whenever the
\* prop changes
InitEffect ==
    /\ ~inFrame
    /\ Len(frames) < MaxFrames
    /\ \E initialState \in InitialStates :
         /\ history' = <<loadedState(initialState)>>
         /\ historyIndex' = 0
         /\ call' = [op |-> "init", arg |-> initialState]
    /\ svg' = <<>>
    /\ UNCHANGED <<isImageLoaded, stitchGrid, canvas, inFrame>>
    /\ RecomputeEffect(TRUE, history'[1])
    /\ SaveStatusEffect(TRUE)
    /\ EditorFrame

\* img 'load' listener: setIsImageLoaded(true)
handleImageLoad ==
    /\ Interactive
    /\ ~isImageLoaded
    /\ Len(frames) < MaxFrames
    /\ isImageLoaded' = TRUE
    /\ call' = [op |-> "load"]
    /\ svg' = <<>>
    /\ UNCHANGED <<history, historyIndex, stitchGrid, canvas, inFrame, saveStatus>>
    /\ RecomputeEffect(TRUE, currentState)
    /\ EditorFrame

setState ==
    /\ Interactive
    /\ \E newState \in NewStates :
         LET nextState == Merge(currentState, newState)
         IN /\ call' = [op |-> "setState", arg |-> newState]
            /\ IF SameJson(nextState, currentState)
               THEN UNCHANGED <<history, historyIndex, loading, frames, isImageLoaded,
                                saveStatus>>
               ELSE LET newHistory == PushHistory(history, historyIndex, nextState)
                    IN /\ Len(newHistory) <= MaxHistory
                       /\ Len(frames) < MaxFrames
                       /\ history' = newHistory
                       /\ historyIndex' = Len(newHistory) - 1
                       /\ UNCHANGED isImageLoaded
                       /\ RecomputeEffect(TRUE, nextState)
                       /\ SaveStatusEffect(TRUE)
    /\ svg' = <<>>
    /\ UNCHANGED <<stitchGrid, canvas, inFrame>>
    /\ EditorFrame

handleUndo ==
    /\ Interactive
    /\ call' = [op |-> "handleUndo"]
    /\ IF canUndo
       THEN /\ Len(frames) < MaxFrames
            /\ historyIndex' = historyIndex - 1
            /\ UNCHANGED isImageLoaded
            /\ RecomputeEffect(TRUE, history[historyIndex])
            /\ SaveStatusEffect(TRUE)
       ELSE UNCHANGED <<historyIndex, loading, frames, isImageLoaded, saveStatus>>
    /\ svg' = <<>>
    /\ UNCHANGED <<history, stitchGrid, canvas, inFrame>>
    /\ EditorFrame

handleRedo ==
    /\ Interactive
    /\ call' = [op |-> "handleRedo"]
    /\ IF canRedo
       THEN /\ Len(frames) < MaxFrames
            /\ historyIndex' = historyIndex + 1
            /\ UNCHANGED isImageLoaded
            /\ RecomputeEffect(TRUE, history[historyIndex + 2])
            /\ SaveStatusEffect(TRUE)
       ELSE UNCHANGED <<historyIndex, loading, frames, isImageLoaded, saveStatus>>
    /\ svg' = <<>>
    /\ UNCHANGED <<history, stitchGrid, canvas, inFrame>>
    /\ EditorFrame

\* one requestAnimationFrame callback, with the currentState it captured
RunCallback ==
    /\ frames # <<>>
    /\ LET st == Head(frames)
           stitchesX == st.gridSize
           stitchesY == StitchesY(st.gridSize, image)
       IN IF surface = "noContainer"
          THEN \* if (!container) return;
               /\ call' = [op |-> "frame", arg |-> st, error |-> "none"]
               /\ UNCHANGED <<stitchGrid, canvas, loading>>
          ELSE IF surface = "noContext"
          THEN \* canvas.width and canvas.height were assigned; if (!ctx) return;
               /\ call' = [op |-> "frame", arg |-> st, error |-> "none"]
               /\ canvas' = BlankCanvas
               /\ UNCHANGED <<stitchGrid, loading>>
          ELSE IF GetImageDataThrows(stitchesX, stitchesY)
          THEN \* canvas.width and canvas.height were assigned, which resets the
               \* bitmap; the exception leaves the callback before the loop
               /\ call' = [op |-> "frame", arg |-> st, error |-> "IndexSizeError"]
               /\ canvas' = BlankCanvas
               /\ UNCHANGED <<stitchGrid, loading>>
          ELSE LET currentStitchGrid ==
                       Quantize(Resample(image, stitchesX, stitchesY),
                                stitchesX, stitchesY, st.threshold)
               IN /\ call' = [op |-> "frame", arg |-> st, error |-> "none"]
                  /\ stitchGrid' = currentStitchGrid
                  /\ canvas' = Render(st, currentStitchGrid, stitchesX, stitchesY)
                  /\ loading' = FALSE
    /\ frames' = Tail(frames)
    /\ inFrame' = (Tail(frames) # <<>>)
    /\ svg' = <<>>
    /\ UNCHANGED <<history, historyIndex, isImageLoaded, saveStatus>>
    /\ EditorFrame

\* the Download SVG button is disabled while loading
handleDownloadSvg ==
    /\ Interactive
    /\ ~loading
    /\ call' = [op |-> "handleDownloadSvg"]
    /\ IF stitchGrid = NoGrid \/ ~isImageLoaded
       THEN svg' = <<>>
       ELSE LET stitchesX == currentState.gridSize
                stitchesY == StitchesY(currentState.gridSize, image)
            IN IF SvgRowsMissing(stitchGrid, stitchesY)
               THEN svg' = <<>>
               ELSE svg' = <<SvgDocument(currentState, stitchGrid, stitchesX, stitchesY)>>
    /\ UNCHANGED <<history, historyIndex, isImageLoaded, loading, frames, inFrame,
                   stitchGrid, canvas, saveStatus>>
    /\ EditorFrame

NextEditor ==
    \/ InitEffect
    \/ handleImageLoad
    \/ setState
    \/ handleUndo
    \/ handleRedo
    \/ RunCallback
    \/ handleDownloadSvg

SpecEditor == InitEditor /\ [][NextEditor]_vars

\* ---------------------------------------------------------------- editor: saving
\* what the save handler and its callbacks leave alone
SaveFrame ==
    /\ svg' = <<>>
    /\ pdf' = <<>>
    /\ UNCHANGED <<isImageLoaded, loading, frames, inFrame, stitchGrid, canvas, surface, pdfJobs>>
    /\ ComponentFrame

\* the outcomes of the try block: fileToDataUrl rejects, JSON.parse of the
\* stored list throws, localStorage.setItem throws, or nothing fails
SaveOutcomes == {"readFailed", "parseFailed", "writeFailed", "none"}

\* a catch block that also resets the history
SaveFailed_ResetsHistory ==
    /\ saveStatus' = "idle"
    /\ history' = <<defaultState>>
    /\ historyIndex' = 0
    /\ UNCHANGED timers

\* catch (error) { console.error; alert; setSaveStatus('idle') }
SaveFailed ==
    /\ saveStatus' = "idle"
    /\ UNCHANGED <<history, historyIndex, timers>>

\* setSaveStatus('saved'); setTimeout(() => setSaveStatus('idle'), 2000)
SaveSucceeded ==
    /\ timers < MaxPending
    /\ saveStatus' = "saved"
    /\ timers' = timers + 1
    /\ UNCHANGED <<history, historyIndex>>

\* the Save button (disabled unless saveStatus is 'idle'), up to the await
handleSavePattern ==
    /\ Interactive
    /\ saveStatus = "idle"
    /\ saves < MaxPending
    /\ call' = [op |-> "handleSavePattern"]
    /\ saveStatus' = "saving"
    /\ saves' = saves + 1
    /\ UNCHANGED <<history, historyIndex, timers>>
    /\ SaveFrame

\* the rest of handleSavePattern, once the FileReader has finished
SaveSettles ==
    /\ saves > 0
    /\ ~inFrame
    /\ saves' = saves - 1
    /\ \E outcome \in SaveOutcomes :
         /\ call' = [op |-> "saveSettled", error |-> outcome]
         /\ IF outcome = "none" THEN SaveSucceeded ELSE SaveFailed
    /\ SaveFrame

\* () => setSaveStatus('idle'), 2000 ms after a pattern was saved
SaveTimeout ==
    /\ timers > 0
    /\ ~inFrame
    /\ call' = [op |-> "saveTimeout"]
    /\ saveStatus' = "idle"
    /\ timers' = timers - 1
    /\ UNCHANGED <<history, historyIndex, saves>>
    /\ SaveFrame

\* saving against the handlers that write the history; the image listener,
\* the animation frames and the downloads write neither the history nor
\* saveStatus and are left to SpecEditor
NextSave ==
    \/ InitEffect
    \/ setState
    \/ handleUndo
    \/ handleRedo
    \/ handleSavePattern
    \/ SaveSettles
    \/ SaveTimeout

SpecSave == InitEditor /\ [][NextSave]_vars

\* ---------------------------------------------------------------- editor: PDF export
\* let instructions = 'Failed to generate instructions.'
FailedInstructions == "Failed to generate instructions."

\* the texts getCrossStitchInstructions resolves with
InstructionTexts == {"Work the silhouette row by row."}

\* doc.save(...): the first page with the canvas image under a grid of
\* stitchesX by stitchesY cells, and if (instructions) { doc.addPage(); ... }
PdfDocument(patternCanvas, instructions, stitchesX, stitchesY) ==
    [pages |-> IF instructions # "" THEN <<"pattern", "instructions">> ELSE <<"pattern">>,
     image |-> patternCanvas,
     stitchesX |-> stitchesX,
     stitchesY |-> stitchesY,
     instructions |-> instructions]

\* the documents generatePdf can hand to the browser.  With a stitch count of
\* 0 the grid loops compute i / 0: whether jsPDF then throws (caught: alert,
\* no document) or draws is left to the library
generatePdf(patternCanvas, instructions, stitchesX, stitchesY) ==
    IF stitchesX = 0 \/ stitchesY = 0
    THEN {<<>>, <<PdfDocument(patternCanvas, instructions, stitchesX, stitchesY)>>}
    ELSE {<<PdfDocument(patternCanvas, instructions, stitchesX, stitchesY)>>}

\* what the PDF handlers leave alone
PdfFrame ==
    /\ svg' = <<>>
    /\ UNCHANGED <<history, historyIndex, isImageLoaded, frames, inFrame, stitchGrid, canvas,
                   surface, saveStatus, saves, timers>>
    /\ ComponentFrame

\* the PDF (Pattern Only) button, disabled while loading: generatePdf has no
\* await of its own, so the handler runs through to setLoading(false)
handleDownloadPdfWithoutInstructions ==
    /\ Interactive
    /\ ~loading
    /\ call' = [op |-> "handleDownloadPdfWithoutInstructions"]
    /\ IF isImageLoaded
       THEN /\ pdf' \in generatePdf(canvas, "", currentState.gridSize,
                                    StitchesY(currentState.gridSize, image))
            /\ loading' = FALSE
       ELSE /\ pdf' = <<>>
            /\ UNCHANGED loading
    /\ UNCHANGED pdfJobs
    /\ PdfFrame

\* the PDF (with Instructions) button, disabled while loading, up to the await
\* of getCrossStitchInstructions
handleDownloadPdfWithInstructions ==
    /\ Interactive
    /\ ~loading
    /\ Len(pdfJobs) < MaxPending
    /\ call' = [op |-> "handleDownloadPdfWithInstructions"]
    /\ IF isImageLoaded
       THEN /\ loading' = TRUE
            /\ pdfJobs' = Append(pdfJobs, [stitchesX |-> currentState.gridSize,
                                           stitchesY |-> StitchesY(currentState.gridSize, image)])
       ELSE UNCHANGED <<loading, pdfJobs>>
    /\ pdf' = <<>>
    /\ PdfFrame

\* the rest of handleDownloadPdfWithInstructions once the request has settled:
\* the catch block on a rejection, generatePdf on the canvas as it is now,
\* setLoading(false)
PdfSettles ==
    /\ pdfJobs # <<>>
    /\ ~inFrame
    /\ LET job == Head(pdfJobs)
       IN \/ \E text \in InstructionTexts :
               /\ call' = [op |-> "pdfSettled", error |-> "none"]
               /\ pdf' \in generatePdf(canvas, text, job.stitchesX, job.stitchesY)
          \/ /\ call' = [op |-> "pdfSettled", error |-> "fetchFailed"]
             /\ pdf' \in generatePdf(canvas, FailedInstructions, job.stitchesX, job.stitchesY)
    /\ pdfJobs' = Tail(pdfJobs)
    /\ loading' = FALSE
    /\ PdfFrame

NextExport ==
    \/ NextEditor
    \/ handleDownloadPdfWithoutInstructions
    \/ handleDownloadPdfWithInstructions
    \/ PdfSettles

SpecExport == InitEditor /\ [][NextExport]_vars

\* ---------------------------------------------------------------- editor: drawing surface
\* the browser detaches the canvas from its container, or stops handing out a
\* 2D context (canvas.parentElement or getContext('2d') returns null from now on)
LoseSurface ==
    /\ surface = "ok"
    /\ surface' \in {"noContainer", "noContext"}
    /\ call' = [op |-> "surface"]
    /\ svg' = <<>>
    /\ pdf' = <<>>
    /\ UNCHANGED <<history, historyIndex, isImageLoaded, loading, frames, inFrame,
                   stitchGrid, canvas, saveStatus, saves, timers, pdfJobs>>
    /\ ComponentFrame

NextSurface == NextEditor \/ LoseSurface

SpecSurface == InitEditor /\ [][NextSurface]_vars

\* ---------------------------------------------------------------- properties: background mask
Cells == (0..(height - 1)) \X (0..(width - 1))

InGrid(y, x) == y \in 0..(height - 1) /\ x \in 0..(width - 1)

IsOccupied(y, x) == InGrid(y, x) /\ stitchGrid[y][x]

IsBackground(y, x) == InGrid(y, x) /\ backgroundGrid[y][x]

BackgroundResolved == pc \in {"background", "traced"}

SameDimensions ==
    /\ DOMAIN backgroundGrid = 0..(height - 1)
    /\ \A y \in 0..(height - 1) : DOMAIN backgroundGrid[y] = 0..(width - 1)

\* C1: the mask returned by getBackgroundGrid has the dimensions of the grid and
\* no cell is both occupied and marked as background.
OccupiedNeverBackground ==
    BackgroundResolved =>
        /\ SameDimensions
        /\ \A c \in Cells : stitchGrid[c[1]][c[2]] => ~backgroundGrid[c[1]][c[2]]

\* an occupied cell next to a marked background cell
OccupiedBesideBackground ==
    /\ pc = "background"
    /\ \E c \in Cells : /\ stitchGrid[c[1]][c[2]]
                        /\ IsBackground(c[1], c[2] + 1)
                        /\ IsBackground(c[1] + 1, c[2])

Adjacent4(c, d) == Abs(c[1] - d[1]) + Abs(c[2] - d[2]) = 1

Unoccupied == {c \in Cells : ~stitchGrid[c[1]][c[2]]}

BorderCells ==
    {c \in Cells : c[1] = 0 \/ c[1] = height - 1 \/ c[2] = 0 \/ c[2] = width - 1}

\* the unoccupied cells joined to S by up/down/left/right steps through unoccupied cells
RECURSIVE ConnectedFrom(_)
ConnectedFrom(S) ==
    LET N == S \cup {c \in Unoccupied : \E d \in S : Adjacent4(c, d)}
    IN IF N = S THEN S ELSE ConnectedFrom(N)

BorderConnected == ConnectedFrom(Unoccupied \cap BorderCells)

\* C2: a cell is marked as background iff it is unoccupied and 4-connected, through
\* unoccupied cells, to an unoccupied border cell.
BackgroundIsBorderConnected ==
    BackgroundResolved =>
        \A c \in Cells : backgroundGrid[c[1]][c[2]] <=> c \in BorderConnected

\* an enclosed unoccupied cell that touches marked background only diagonally
EnclosedCellDiagonalToBackground ==
    /\ pc = "background"
    /\ \E c \in Unoccupied :
         /\ ~backgroundGrid[c[1]][c[2]]
         /\ IsBackground(c[1] + 1, c[2] + 1)
         /\ \A d \in Cells : Adjacent4(c, d) => stitchGrid[d[1]][d[2]]

\* ---------------------------------------------------------------- properties: boundary edges
\* a unit edge is <<"h", x, y>> from (x,y) to (x+1,y) or <<"v", x, y>> from (x,y) to (x,y+1)
TracedEdgeSet ==
    {<<"h", ParseKey(k)[1], ParseKey(k)[2]>> : k \in SeqRange(boundaryEdges.horizontalEdges)}
    \cup {<<"v", ParseKey(k)[1], ParseKey(k)[2]>> : k \in SeqRange(boundaryEdges.verticalEdges)}

FacesBackground(y, x) == ~InGrid(y, x) \/ backgroundGrid[y][x]

\* the side between cells a and b belongs to an occupied cell and faces outside or background
IsBoundarySide(a, b) ==
    \/ IsOccupied(a[1], a[2]) /\ FacesBackground(b[1], b[2])
    \/ IsOccupied(b[1], b[2]) /\ FacesBackground(a[1], a[2])

BoundarySides ==
    {<<"h", x, y>> : <<x, y>> \in {q \in (0..(width - 1)) \X (0..height) :
                                    IsBoundarySide(<<q[2] - 1, q[1]>>, <<q[2], q[1]>>)}}
    \cup {<<"v", x, y>> : <<x, y>> \in {q \in (0..width) \X (0..(height - 1)) :
                                         IsBoundarySide(<<q[2], q[1] - 1>>, <<q[2], q[1]>>)}}

\* C3: the edge set built by traceAndSimplifyContours holds exactly the sides of
\* occupied cells whose neighbour across the side is outside the grid or background.
EdgesAreBoundarySides == pc = "traced" => TracedEdgeSet = BoundarySides

\* an occupied cell with one side on an enclosed hole, one on the outside and one on an occupied cell
CellBetweenHoleAndBackground ==
    /\ pc = "traced"
    /\ \E c \in Cells :
         /\ stitchGrid[c[1]][c[2]]
         /\ FacesBackground(c[1] - 1, c[2])
         /\ InGrid(c[1] + 1, c[2]) /\ ~stitchGrid[c[1] + 1][c[2]] /\ ~backgroundGrid[c[1] + 1][c[2]]
         /\ IsOccupied(c[1], c[2] + 1)

\* ---------------------------------------------------------------- properties: traced paths
KeptWalks == SelectSeq(walks, LAMBDA w : Len(w) > 1)

\* C4: every returned path has at least 2 points, and the returned paths are
\* exactly the walks of more than one point (a one-point walk gives no path).
PathsHaveTwoPoints ==
    pc = "traced" =>
        /\ \A i \in 1..Len(contourPaths) : Len(contourPaths[i]) >= 2
        /\ Len(contourPaths) = Len(KeptWalks)

\* a trace with a returned path and a walk that stopped at its start point
OnePointWalkDropped ==
    /\ pc = "traced"
    /\ Len(contourPaths) >= 1
    /\ \E i \in 1..Len(walks) : Len(walks[i]) = 1

OuterRectangle == <<<<0, 0>>, <<width, 0>>, <<width, height>>, <<0, height>>>>

AllOccupied == \A c \in Cells : stitchGrid[c[1]][c[2]]

\* C5: for a fully occupied grid the background mask is all false and the tracer
\* returns exactly one path, the corner list (0,0),(W,0),(W,H),(0,H).
SolidGridGivesOuterRectangle ==
    (pc = "traced" /\ AllOccupied) =>
        /\ \A c \in Cells : ~backgroundGrid[c[1]][c[2]]
        /\ contourPaths = <<OuterRectangle>>

\* the solid 4 x 4 square has been traced
SolidFourByFourTraced == pc = "traced" /\ width = 4 /\ height = 4 /\ AllOccupied

OccupiedCells == {c \in Cells : stitchGrid[c[1]][c[2]]}

\* the corners of cell (cx, cy), from its top-left corner clockwise
CellCorners(cx, cy) == <<<<cx, cy>>, <<cx + 1, cy>>, <<cx + 1, cy + 1>>, <<cx, cy + 1>>>>

\* C6: for a grid with exactly one occupied cell the tracer returns exactly one
\* path of exactly 4 points, the four corners of that cell.
SingleCellGivesItsCorners ==
    (pc = "traced" /\ Cardinality(OccupiedCells) = 1) =>
        \A c \in OccupiedCells : contourPaths = <<CellCorners(c[2], c[1])>>

\* the 3 x 3 grid with only its centre cell occupied has been traced
CentreCellTraced ==
    pc = "traced" /\ width = 3 /\ height = 3 /\ OccupiedCells = {<<1, 1>>}

IsRing == \A c \in Cells : stitchGrid[c[1]][c[2]] <=> c \in BorderCells

\* the grid points strictly inside the grid: every corner of an interior cell that
\* is not on the outer rectangle
InnerPoints == (1..(width - 1)) \X (1..(height - 1))

\* C7: when the border cells are all occupied and the interior cells all unoccupied,
\* the tracer returns exactly one path, the outer rectangle, and no returned path
\* has a point on the boundary of the enclosed hole.
RingGivesOnlyOuterRectangle ==
    (pc = "traced" /\ IsRing) =>
        /\ contourPaths = <<OuterRectangle>>
        /\ \A i \in 1..Len(contourPaths) : SeqRange(contourPaths[i]) \cap InnerPoints = {}

\* the 5 x 5 ring with the hole (1..3, 1..3) has been traced
FiveByFiveRingTraced ==
    /\ pc = "traced" /\ width = 5 /\ height = 5 /\ IsRing
    /\ \A c \in (1..3) \X (1..3) : ~stitchGrid[c[1]][c[2]] /\ ~backgroundGrid[c[1]][c[2]]

\* ---------------------------------------------------------------- properties: closed strokes
\* the unit edges on the segment from a to b; a segment that is not axis-aligned has none
SegmentEdges(a, b) ==
    IF a[2] = b[2]
    THEN {<<"h", x, a[2]>> : x \in (IF a[1] < b[1] THEN a[1] ELSE b[1])..((IF a[1] < b[1] THEN b[1] ELSE a[1]) - 1)}
    ELSE IF a[1] = b[1]
    THEN {<<"v", a[1], y>> : y \in (IF a[2] < b[2] THEN a[2] ELSE b[2])..((IF a[2] < b[2] THEN b[2] ELSE a[2]) - 1)}
    ELSE {}

AxisAligned(a, b) == a[1] = b[1] \/ a[2] = b[2]

\* the unit edges covered by the closed stroke of path p
StrokeEdges(p) ==
    UNION {SegmentEdges(ClosedSegments(p)[i][1], ClosedSegments(p)[i][2]) :
           i \in 1..Len(ClosedSegments(p))}

\* C8: every segment of the closed stroke of every returned path, the closing
\* segment included, is axis-aligned and consists only of boundary edges.
StrokesLieOnBoundary ==
    pc = "traced" =>
        \A i \in 1..Len(contourPaths) :
            \A j \in 1..Len(ClosedSegments(contourPaths[i])) :
                LET seg == ClosedSegments(contourPaths[i])[j]
                IN /\ AxisAligned(seg[1], seg[2])
                   /\ SegmentEdges(seg[1], seg[2]) \subseteq TracedEdgeSet

\* ---------------------------------------------------------------- properties: simplifier
\* the path visits no point twice, as every walk of the tracer
IsSelfAvoiding(p) == Cardinality(SeqRange(p)) = Len(p)

\* C9: simplifying an already simplified path returns the same path, point for
\* point, for every path the tracer can produce and every lattice path that
\* visits no point twice.
SimplifyIsIdempotent ==
    (pc = "resimplified" /\ IsSelfAvoiding(path)) => resimplified = simplified

\* a closed walk whose seam lies inside a straight run: both wrap-around checks
\* removed a point, and the second simplification had at least 3 points to examine
SeamRemovedTwice ==
    /\ pc = "resimplified"
    /\ IsSelfAvoiding(path)
    /\ Len(simplified) >= 3
    /\ simplified[1] # path[1]
    /\ simplified[Len(simplified)] # path[Len(path)]

\* C9 as stated, for every lattice path: simplifying twice equals simplifying once.
SimplifyIsIdempotentOnEveryPath == pc = "resimplified" => resimplified = simplified

\* s is a subsequence of p: the points of s occur in p in the same order
RECURSIVE IsSubsequence(_, _)
IsSubsequence(s, p) ==
    IF Len(s) = 0 THEN TRUE
    ELSE IF Len(p) = 0 THEN FALSE
    ELSE IF Head(s) = Head(p) THEN IsSubsequence(Tail(s), Tail(p))
    ELSE IsSubsequence(s, Tail(p))

\* C10: a path of fewer than 3 points is returned unchanged; otherwise the output
\* is a subsequence of the input with at least 2 points whose closed stroke covers
\* exactly the unit edges covered by the closed stroke of the input.
SimplifyIsLossless ==
    pc = "traced" =>
        \A i \in 1..Len(KeptWalks) :
            LET p == KeptWalks[i]
                s == contourPaths[i]
            IN IF Len(p) < 3 THEN s = p
               ELSE /\ IsSubsequence(s, p)
                    /\ Len(s) >= 2
                    /\ StrokeEdges(s) = StrokeEdges(p)

\* the cyclic predecessor and successor of position j in a loop of n points
CyclicPrev(j, n) == IF j = 1 THEN n ELSE j - 1

CyclicNext(j, n) == IF j = n THEN 1 ELSE j + 1

\* no vertex of the closed loop p lies on the line of its two cyclic neighbours
NoCollinearVertex(p) ==
    \A j \in 1..Len(p) :
        CrossProduct(p[CyclicPrev(j, Len(p))], p[j], p[CyclicNext(j, Len(p))]) # 0

\* C11: every returned path of 3 or more points, taken as a closed loop, has no
\* vertex collinear with its cyclic predecessor and successor, the first and
\* the last vertex across the seam included.
ReturnedPathsAreMinimal ==
    pc = "traced" =>
        \A i \in 1..Len(contourPaths) :
            Len(contourPaths[i]) >= 3 => NoCollinearVertex(contourPaths[i])

\* a returned loop of 4 or more points whose walk ended inside a straight run
\* through its start point, so that the seam check removed the last point walked
SeamPointRemoved ==
    /\ pc = "traced"
    /\ \E i \in 1..Len(KeptWalks) :
         /\ Len(contourPaths[i]) >= 4
         /\ contourPaths[i][1] = KeptWalks[i][1]
         /\ contourPaths[i][Len(contourPaths[i])] # KeptWalks[i][Len(KeptWalks[i])]

\* ---------------------------------------------------------------- properties: quantize loop
SampleAt(y, x) == [c \in 1..4 |-> imageData[(y * width + x) * 4 + (c - 1)]]

\* 0.299 R + 0.587 G + 0.114 B in thousandths, as an exact integer
LuminanceThousandths(p) == 299 * p[1] + 587 * p[2] + 114 * p[3]

LuminanceBelow(p, t) == LuminanceThousandths(p) < 1000 * t

\* C12: a cell of the occupancy grid is true if and only if its sample has
\* alpha > 128 and luminance 0.299 R + 0.587 G + 0.114 B strictly below the
\* threshold; a sample whose luminance equals the threshold is not occupied
OccupiedIffOpaqueAndDark ==
    pc = "quantized" =>
        \A c \in Cells :
            stitchGrid[c[1]][c[2]] <=>
                /\ SampleAt(c[1], c[2])[4] > 128
                /\ LuminanceBelow(SampleAt(c[1], c[2]), threshold)

\* ---------------------------------------------------------------- properties: recomputation
FrameStep == frames # <<>> /\ call'.op = "frame"

\* the stitch counts the callback at the head of the queue derives
HeadStitchesX == Head(frames).gridSize

HeadStitchesY == StitchesY(Head(frames).gridSize, image)

NothingDrawn(ops) == ops = <<>>

\* C13: when the derived stitch height (or the width) is 0 the recomputation
\* fails with an error before any grid exists: the stored grid is left as it
\* was and nothing is drawn on the canvas
DegenerateFrameFailsFast ==
    [][(FrameStep /\ (HeadStitchesX = 0 \/ HeadStitchesY = 0)) =>
           /\ call'.error # "none"
           /\ stitchGrid' = stitchGrid
           /\ NothingDrawn(canvas')]_vars

\* a callback for an entry without rows has failed while a grid of an earlier
\* entry is stored
DegenerateFrameAfterGrid ==
    /\ call.op = "frame"
    /\ call.error = "IndexSizeError"
    /\ StitchesY(call.arg.gridSize, image) = 0
    /\ stitchGrid # NoGrid
    /\ NothingDrawn(canvas)

\* ---------------------------------------------------------------- properties: history
SetStateStep == historyIndex >= 0 /\ call'.op = "setState"

\* the entry a setState call asks for
RequestedState == Merge(currentState, call'.arg)

\* C14: setState with parameters that make the next entry value-equal to the
\* current entry changes neither the history nor the cursor and schedules no
\* recomputation
EqualSetStateIsNoOp ==
    [][(SetStateStep /\ RequestedState = currentState) =>
           UNCHANGED <<history, historyIndex, frames, loading>>]_vars

\* setState was called with the value the current entry already has, with the
\* image loaded and no recomputation pending
EqualSetStateCalled ==
    /\ call.op = "setState"
    /\ isImageLoaded
    /\ Merge(currentState, call.arg) = currentState
    /\ frames = <<>>
    /\ ~loading
    /\ Len(history) >= 2

\* C15: a push of an entry that is not value-equal to the current one, with
\* the cursor at i, yields old[0..i] followed by the new entry, with the cursor
\* on the new last entry; the entries after i are discarded
PushTruncatesRedoBranch ==
    [][(SetStateStep /\ RequestedState # currentState) =>
           /\ history' = SubSeq(history, 1, historyIndex + 1) \o <<RequestedState>>
           /\ historyIndex' = Len(history') - 1
           /\ ~canRedo']_vars

\* push(b); undo(); push(c) from the default entry a: the history is <<a, c>>,
\* the cursor is on c, and the canvas still shows the squares of b, an entry
\* that is in the history no more
RedoBranchDiscarded ==
    /\ call.op = "setState"
    /\ history = <<defaultState, Merge(defaultState, [outlineOffset |-> 1])>>
    /\ historyIndex = 1
    /\ canvas # <<>>
    /\ canvas[1].kind = "fill"
    /\ canvas[1].shape = "square"

\* C16: once the initialisation effect has seeded the history, the cursor is a
\* valid index of the history after every push, undo, redo and
\* re-initialisation
CursorIsValidIndex ==
    call.op # "mount" => (0 <= historyIndex /\ historyIndex < Len(history))

\* the history was initialised again after a pattern had been drawn
ReinitialisedAfterDrawing ==
    /\ call.op = "init"
    /\ canvas # <<>>
    /\ historyIndex = 0
    /\ Len(history) = 1

\* C17: handleUndo moves the cursor back by one exactly when it is above 0,
\* handleRedo moves it forward by one exactly when it is below the last index,
\* and neither changes the history
UndoRedoMoveByOne ==
    [][/\ (historyIndex >= 0 /\ call'.op = "handleUndo") =>
              /\ history' = history
              /\ historyIndex' = (IF historyIndex > 0 THEN historyIndex - 1 ELSE historyIndex)
       /\ (historyIndex >= 0 /\ call'.op = "handleRedo") =>
              /\ history' = history
              /\ historyIndex' = (IF historyIndex < Len(history) - 1
                                   THEN historyIndex + 1 ELSE historyIndex)]_vars

\* a redo has moved the cursor forward to the middle of a history of three
RedoMovedCursor ==
    /\ call.op = "handleRedo"
    /\ Len(history) = 3
    /\ historyIndex = 1

\* ---------------------------------------------------------------- properties: scheduling
\* C18: a scheduled recomputation that is followed in the queue by a later one
\* is superseded: when its callback runs it stores no grid and draws nothing
StaleFrameDoesNothing ==
    [][(FrameStep /\ Len(frames) > 1) =>
           /\ stitchGrid' = stitchGrid
           /\ canvas' = canvas]_vars

AcceptedChange ==
    /\ historyIndex >= 0
    /\ call'.op \in {"setState", "handleUndo", "handleRedo"}
    /\ <<history', historyIndex'>> # <<history, historyIndex>>

Settled == historyIndex >= 0 /\ isImageLoaded /\ frames = <<>>

\* the stored grid and the canvas are those of the current entry; an entry
\* whose grid has no row or no column has neither (the canvas is blank)
ShowsCurrentEntry ==
    LET stitchesX == currentState.gridSize
        stitchesY == StitchesY(currentState.gridSize, image)
    IN IF stitchesX = 0 \/ stitchesY = 0
       THEN NothingDrawn(canvas)
       ELSE /\ stitchGrid = Quantize(Resample(image, stitchesX, stitchesY),
                                     stitchesX, stitchesY, currentState.threshold)
            /\ canvas = Render(currentState, stitchGrid, stitchesX, stitchesY)

TrueCells(grid) ==
    Cardinality({c \in UNION {{<<y, x>> : x \in DOMAIN grid[y]} : y \in DOMAIN grid} :
                 grid[c[1]][c[2]]})

FillCount(ops) == Cardinality({k \in 1..Len(ops) : ops[k].kind = "fill"})

\* C20: the fill shapes drawn on the canvas by a recomputation and the fill
\* elements of a downloaded SVG document are both as many as the true cells of
\* the occupancy grid
OneFillPerOccupiedCell ==
    [][/\ (FrameStep /\ call'.error = "none") => FillCount(canvas') = TrueCells(stitchGrid')
       /\ (call'.op = "handleDownloadSvg" /\ svg' # <<>>) =>
              FillCount(svg'[1].elements) = TrueCells(stitchGrid)]_vars

\* ---------------------------------------------------------------- properties: coverage
\* the unit edges covered by the closed strokes of all returned paths
AllStrokeEdges == UNION {StrokeEdges(contourPaths[i]) : i \in 1..Len(contourPaths)}

\* C27: every boundary edge lies on the closed polyline of some returned
\* path, on a segment between consecutive vertices or on the closing segment
EveryBoundaryEdgeTraced ==
    pc = "traced" => BoundarySides \subseteq AllStrokeEdges

\* ---------------------------------------------------------------- properties: termination
\* the points joined to q by a boundary edge
EdgeNeighbours(q) ==
    {r \in {<<q[1] + 1, q[2]>>, <<q[1] - 1, q[2]>>, <<q[1], q[2] + 1>>, <<q[1], q[2] - 1>>} :
        \/ r = <<q[1] + 1, q[2]>> /\ <<"h", q[1], q[2]>> \in TracedEdgeSet
        \/ r = <<q[1] - 1, q[2]>> /\ <<"h", q[1] - 1, q[2]>> \in TracedEdgeSet
        \/ r = <<q[1], q[2] + 1>> /\ <<"v", q[1], q[2]>> \in TracedEdgeSet
        \/ r = <<q[1], q[2] - 1>> /\ <<"v", q[1], q[2] - 1>> \in TracedEdgeSet}

\* every walk ended at a point all of whose neighbours had been visited, by it
\* or by an earlier walk
WalksStopAtDeadEnds ==
    \A k \in 1..Len(walks) :
        EdgeNeighbours(walks[k][Len(walks[k])]) \subseteq
            UNION {SeqRange(walks[j]) : j \in 1..k}

\* the flood fill left no unoccupied cell beside a background cell unmarked
FloodFillExhausted ==
    \A c \in Cells : \A d \in Cells :
        (IsBackground(c[1], c[2]) /\ Adjacent4(c, d) /\ ~IsOccupied(d[1], d[2]))
            => IsBackground(d[1], d[2])

\* C25: on every well-formed grid the flood fill, the contour walk and the
\* simplification terminate: the pipeline reaches its end, the flood fill has
\* then emptied its queue, every walk stopped where no unvisited neighbour was
\* left, and the path list is empty when no cell is occupied
TracingTerminates ==
    /\ <>(pc = "traced")
    /\ [](pc = "traced" =>
             /\ FloodFillExhausted
             /\ WalksStopAtDeadEnds
             /\ (OccupiedCells = {} => contourPaths = <<>>))

\* a grid has been traced in two or more walks, one of them of more than the
\* four corners of a cell
SeveralWalksEnded ==
    /\ pc = "traced"
    /\ Len(walks) >= 2
    /\ \E k \in 1..Len(walks) : Len(walks[k]) > 4

\* ---------------------------------------------------------------- properties: the two backends
\* the stroke width and join rule of the strokes among drawing operations
StrokeStyles(ops) ==
    {[lineWidth |-> ops[i].lineWidth, lineJoin |-> ops[i].lineJoin] :
     i \in {j \in 1..Len(ops) : ops[j].kind = "stroke"}}

\* C21: with outlineOffset > 0 the strokes of an exported SVG document have the
\* stroke width and the join rule of the strokes the canvas rendering of the
\* same grid and entry makes
VectorStrokesStyledAsRaster ==
    (svg # <<>> /\ currentState.outlineOffset > 0) =>
        StrokeStyles(svg[1].elements) =
            StrokeStyles(CanvasStrokes(currentState, stitchGrid, currentState.gridSize,
                                       StitchesY(currentState.gridSize, image)))

\* the positions of the operations of one kind
OpsOfKind(ops, kind) == {k \in 1..Len(ops) : ops[k].kind = kind}

\* the contour paths of a grid
ContoursOf(grid, stitchesX, stitchesY) ==
    traceAndSimplifyContours(grid, getBackgroundGrid(grid, stitchesX, stitchesY),
                             stitchesX, stitchesY)

\* no stroke without an outline offset; with one, the k-th operation is the
\* closed stroke of the k-th contour path and there is no other stroke; every
\* stroke comes before every fill
StrokesBeneathFills(ops, st, grid, stitchesX, stitchesY) ==
    /\ st.outlineOffset = 0 => OpsOfKind(ops, "stroke") = {}
    /\ st.outlineOffset > 0 =>
           LET contours == ContoursOf(grid, stitchesX, stitchesY)
           IN /\ OpsOfKind(ops, "stroke") = 1..Len(contours)
              /\ \A k \in 1..Len(contours) : ops[k].segments = ClosedSegments(contours[k])
    /\ \A i \in OpsOfKind(ops, "stroke") : \A j \in OpsOfKind(ops, "fill") : i < j

\* C22: a completed recomputation on the canvas and a downloaded SVG document
\* both hold strokes only when outlineOffset > 0, then exactly one closed
\* stroke per contour path, and every stroke before any fill shape
OutlineOnlyWithOffsetAndBeneathFills ==
    [][/\ (FrameStep /\ call'.error = "none") =>
              StrokesBeneathFills(canvas', call'.arg, stitchGrid', HeadStitchesX, HeadStitchesY)
       /\ (call'.op = "handleDownloadSvg" /\ svg' # <<>>) =>
              StrokesBeneathFills(svg'[1].elements, currentState, stitchGrid,
                                  currentState.gridSize,
                                  StitchesY(currentState.gridSize, image))]_vars

\* a document with an outline under its fill shapes was downloaded while the
\* canvas shows an outline under its fill shapes
OutlinedInBothBackends ==
    /\ svg # <<>>
    /\ OpsOfKind(svg[1].elements, "stroke") # {}
    /\ OpsOfKind(svg[1].elements, "fill") # {}
    /\ OpsOfKind(canvas, "stroke") # {}
    /\ OpsOfKind(canvas, "fill") # {}

\* ---------------------------------------------------------------- properties: drawing surface
\* C23: a recomputation that finds the drawing surface unavailable reports the
\* failure and leaves the canvas as it was
SurfaceFailureReportedAndHarmless ==
    [][(FrameStep /\ surface # "ok") => (call'.error # "none" /\ canvas' = canvas)]_vars

\* ---------------------------------------------------------------- properties: saving
SaveStep == call'.op \in {"handleSavePattern", "saveSettled", "saveTimeout"}

\* C24: no step of handleSavePattern, whether the save fails while reading the
\* file, parsing the stored list or writing it, or succeeds, changes the
\* history or the cursor
SaveLeavesHistoryAlone ==
    [][SaveStep => (history' = history /\ historyIndex' = historyIndex)]_vars

\* a save has just failed on writing, on a history of several entries with
\* the cursor past the first
SaveFailedOnLongHistory ==
    /\ call.op = "saveSettled"
    /\ call.error = "writeFailed"
    /\ Len(history) >= 2
    /\ historyIndex >= 1

\* ---------------------------------------------------------------- properties: PDF export
\* C26: a PDF created after the request for the instructions failed has no
\* instructions page
NoInstructionsPageAfterFailedFetch ==
    [][(call'.op = "pdfSettled" /\ call'.error = "fetchFailed" /\ pdf' # <<>>) =>
           pdf'[1].pages = <<"pattern">>]_vars

\* the steps of the export handlers, which run only while loading is false
ExportStep ==
    call'.op \in {"handleDownloadSvg", "handleDownloadPdfWithoutInstructions",
                  "handleDownloadPdfWithInstructions"}

\* the stored grid has the stitch counts derived from the current entry
StoredGridOfCurrentEntry ==
    LET stitchesX == currentState.gridSize
        stitchesY == StitchesY(currentState.gridSize, image)
    IN /\ DOMAIN stitchGrid = 0..(stitchesY - 1)
       /\ \A y \in DOMAIN stitchGrid : DOMAIN stitchGrid[y] = 0..(stitchesX - 1)

\* C28: whenever a handler can run while a scheduled recomputation has not
\* yet run, loading is true, and every export runs on a stored grid with the
\* stitch counts of the current entry
ExportsWaitForRecomputation ==
    /\ []((frames # <<>> /\ ~inFrame) => loading)
    /\ [][(ExportStep /\ isImageLoaded) => StoredGridOfCurrentEntry]_vars

====
